---- MODULE Spec2Model ----
(***************************************************************************)
(* generic-filesystem: the FileProvider capability and its two backends,   *)
(* LocalFileProvider (hierarchical filesystem under a base path) and       *)
(* AwsS3FileProvider (flat bucket/key object store).                       *)
(*                                                                         *)
(* Text (String, &str) is a sequence of one-character strings, so that     *)
(* [a, b].join(""), format! and split("/") are computed as concatenation   *)
(* and splitting.  Byte content (Vec<u8>) is a sequence of integers.       *)
(***************************************************************************)
EXTENDS Integers, Sequences, FiniteSets, TLC

VARIABLES
    backend,    \* which implementation of FileProvider the caller holds
    base,       \* LocalFileProvider.base / AwsS3FileProvider.bucket
    fs,         \* the local filesystem: [dirs, files]
    s3,         \* the object store: bucket -> (key -> content)
    last,       \* the last completed call: operation, arguments, outcome
    pre,        \* the storage as it was when the last call started
    pc,         \* concurrent writers: position of each write_file call
    job         \* concurrent writers: arguments of each write_file call

vars == <<backend, base, fs, s3, last, pre, pc, job>>

----------------------------------------------------------------------------
(* Bounds and input sets *)

\* longest byte content written by the sequential calls
MaxLen == 1
\* longest byte content written by the concurrent writers
MaxWriteLen == 2
\* number of concurrent write_file calls
NumWriters == 2

\* byte values of the sequential calls' content, and of the concurrent writers'
Bytes == {1}
WriteBytes == {1, 2}

RECURSIVE SeqsUpTo(_, _)
SeqsUpTo(S, n) ==
    IF n = 0 THEN {<<>>}
    ELSE LET shorter == SeqsUpTo(S, n - 1)
         IN  shorter \cup {Append(s, b) : s \in {t \in shorter : Len(t) = n - 1}, b \in S}

Contents == SeqsUpTo(Bytes, MaxLen)
WriteContents == SeqsUpTo(WriteBytes, MaxWriteLen)

\* local provider bases, relative paths handed to the local backend, and
\* create_dir arguments (either backend)
LocalBases == {<<>>, <<"/", "d">>}
LocalPaths == {<<"/", "a">>, <<"/", "d">>, <<"/", "d", "/", "a">>, <<"/">>}
DirArgs == {<<"d">>, <<"/", "d">>, <<"x", "/", "y">>}
LocalDsts == {<<"/", "d", "/", "a">>, <<"/", "b">>, <<"/", "x", "/", "b">>, <<"/", "d">>}

\* buckets that exist in the object store, and the provider's own bucket
Buckets == {<<"k">>, <<"o">>}
OwnBucket == <<"k">>
Keys == {<<"a">>, <<"b">>}
Prefixes == {<<>>, <<"a">>, <<"b">>}
S3Dsts == {<<"o", "/", "a">>, <<"o", "/", "z">>, <<"o">>, <<"k", "/", "b">>, <<"x", "/", "a">>}

\* paths the concurrent writers write to
WriterPaths == {<<"/", "a">>, <<"/", "b">>}

----------------------------------------------------------------------------
(* Text helpers *)

\* [a, b, ...].join("")
RECURSIVE Join(_)
Join(parts) == IF parts = <<>> THEN <<>> ELSE Head(parts) \o Join(Tail(parts))

\* str::split("/"): always at least one segment, empty segments kept
RECURSIVE SplitFrom(_, _, _)
SplitFrom(s, i, cur) ==
    IF i > Len(s) THEN <<cur>>
    ELSE IF s[i] = "/" THEN <<cur>> \o SplitFrom(s, i + 1, <<>>)
    ELSE SplitFrom(s, i + 1, Append(cur, s[i]))

Split(s) == SplitFrom(s, 1, <<>>)

\* whether text t occurs in text s as a contiguous piece
Includes(s, t) ==
    \E i \in 0..(Len(s) - Len(t)) : SubSeq(s, i + 1, i + Len(t)) = t

IsPrefix(p, s) == Len(p) <= Len(s) /\ SubSeq(s, 1, Len(p)) = p

Put(f, k, v) == [x \in (DOMAIN f) \cup {k} |-> IF x = k THEN v ELSE f[x]]
Drop(f, k) == [x \in (DOMAIN f) \ {k} |-> f[x]]

RECURSIVE Perms(_)
Perms(S) ==
    IF S = {} THEN {<<>>}
    ELSE UNION {{<<x>> \o p : p \in Perms(S \ {x})} : x \in S}

----------------------------------------------------------------------------
(* The error model *)

\* FileProviderError::new
New(msg) == [details |-> msg]

\* std::io::Error::to_string for the kinds the filesystem reports
IoToString(kind) == <<kind, " (os error)">>

\* impl From<std::io::Error> for FileProviderError
FromIo(kind) == New(IoToString(kind))

\* impl From<SdkError<T>> for FileProviderError: the SDK's Display text
FromSdk(text) == New(<<text>>)

\* results of a call: Ok(val), Err(error) or a panic; st is the storage after
\* the call and calls the primitives issued, in order, with their outcomes
Ok(val, st, calls) == [res |-> "Ok", msg |-> <<>>, val |-> val, st |-> st, calls |-> calls]
Err(e, st, calls) == [res |-> "Err", msg |-> e.details, val |-> <<>>, st |-> st, calls |-> calls]
Panic(st, calls) == [res |-> "Panic", msg |-> <<>>, val |-> <<>>, st |-> st, calls |-> calls]

Call(prim, kind) == [prim |-> prim, ok |-> kind = "ok", kind |-> kind]

----------------------------------------------------------------------------
(* The local filesystem the local backend calls into.  A node is the        *)
(* sequence of the non-empty "/"-separated components of a path; relative   *)
(* paths are resolved from the root.  f.dirs is the set of directories      *)
(* (the root included), f.files maps each regular file to its bytes.        *)

Resolve(s) == SelectSeq(Split(s), LAMBDA c : c # <<>>)
Parent(n) == SubSeq(n, 1, Len(n) - 1)
TrailingSlash(s) == Len(s) > 0 /\ s[Len(s)] = "/"

\* what a path names: "Dir", "File", "Absent" (its directory exists, the
\* entry does not), or the lookup error "NotFound" / "NotADirectory"
Lookup(f, s) ==
    LET n == Resolve(s) IN
    IF s = <<>> THEN "NotFound"
    ELSE IF n \in f.dirs THEN "Dir"
    ELSE IF \E i \in 1..(Len(n) - 1) : SubSeq(n, 1, i) \in DOMAIN f.files
         THEN "NotADirectory"
    ELSE IF Parent(n) \notin f.dirs THEN "NotFound"
    ELSE IF n \in DOMAIN f.files
         THEN (IF TrailingSlash(s) THEN "NotADirectory" ELSE "File")
    ELSE "Absent"

\* size reported by metadata().len() for a directory entry
DirLen == 4096

\* the bytes handed out by a reader opened on a directory: every read fails
UnreadableDir == <<-1>>

\* OpenOptions::new().read(true).open(path)
FsOpen(f, s) ==
    LET k == Lookup(f, s) IN
    CASE k = "File" -> [kind |-> "ok", data |-> f.files[Resolve(s)]]
      [] k = "Dir" -> [kind |-> "ok", data |-> UnreadableDir]
      [] k = "Absent" -> [kind |-> "NotFound", data |-> <<>>]
      [] OTHER -> [kind |-> k, data |-> <<>>]

\* File::create(path), the first half of std::fs::write: the file is created
\* or truncated to no bytes
FsCreate(f, s) ==
    LET k == Lookup(f, s) IN
    CASE k = "File" \/ (k = "Absent" /\ ~TrailingSlash(s)) ->
            [kind |-> "ok", fs |-> [f EXCEPT !.files = Put(f.files, Resolve(s), <<>>)]]
      [] k = "Dir" \/ k = "Absent" -> [kind |-> "IsADirectory", fs |-> f]
      [] OTHER -> [kind |-> k, fs |-> f]

\* write_all(contents) on the handle File::create returned, the second half
\* of std::fs::write: the bytes go to offset 0 of the file as it is then,
\* bytes already there beyond them stay; an unlinked file takes the bytes
\* out of sight
FsWriteAll(f, n, c) ==
    IF n \notin DOMAIN f.files THEN f
    ELSE [f EXCEPT !.files[n] = c \o SubSeq(@, Len(c) + 1, Len(@))]

\* std::fs::write(path, contents) run without interruption
FsWrite(f, s, c) ==
    LET o == FsCreate(f, s) IN
    IF o.kind # "ok" THEN o
    ELSE [kind |-> "ok", fs |-> FsWriteAll(o.fs, Resolve(s), c)]

\* std::fs::remove_file(path)
FsRemoveFile(f, s) ==
    LET k == Lookup(f, s) IN
    CASE k = "File" -> [kind |-> "ok", fs |-> [f EXCEPT !.files = Drop(f.files, Resolve(s))]]
      [] k = "Dir" -> [kind |-> "IsADirectory", fs |-> f]
      [] k = "Absent" -> [kind |-> "NotFound", fs |-> f]
      [] OTHER -> [kind |-> k, fs |-> f]

\* std::fs::copy(from, to): the possible outcomes.  The source is opened
\* first and must be a regular file; the destination is then opened with
\* create+truncate.  When both name the same file the outcome depends on
\* the platform: the truncation empties the file before anything is read
\* (copy reports success with zero bytes), or the copy is refused.
FsCopy(f, from, to) ==
    LET kf == Lookup(f, from)
        kt == Lookup(f, to)
    IN
    IF kf # "File"
    THEN {[kind |-> (CASE kf = "Dir" -> "InvalidInput"
                       [] kf = "Absent" -> "NotFound"
                       [] OTHER -> kf),
           fs |-> f]}
    ELSE IF kt = "Dir" \/ (kt = "Absent" /\ TrailingSlash(to))
    THEN {[kind |-> "IsADirectory", fs |-> f]}
    ELSE IF kt \notin {"File", "Absent"}
    THEN {[kind |-> kt, fs |-> f]}
    ELSE IF Resolve(from) = Resolve(to)
    THEN {[kind |-> "ok", fs |-> [f EXCEPT !.files = Put(f.files, Resolve(to), <<>>)]],
          [kind |-> "PermissionDenied", fs |-> f]}
    ELSE {[kind |-> "ok",
           fs |-> [f EXCEPT !.files = Put(f.files, Resolve(to), f.files[Resolve(from)])]]}

\* std::fs::read_dir(path) with each entry's file_name and metadata().len():
\* the direct children, as a set (the order of a listing is unspecified)
FsReadDir(f, s) ==
    LET k == Lookup(f, s)
        n == Resolve(s)
    IN
    CASE k = "Dir" ->
            [kind |-> "ok",
             entries |->
                {[name |-> m[Len(m)], size |-> Len(f.files[m])] :
                    m \in {x \in DOMAIN f.files : Parent(x) = n}}
                \cup
                {[name |-> m[Len(m)], size |-> DirLen] :
                    m \in {x \in f.dirs : x # <<>> /\ Parent(x) = n}}]
      [] k = "File" -> [kind |-> "NotADirectory", entries |-> {}]
      [] k = "Absent" -> [kind |-> "NotFound", entries |-> {}]
      [] OTHER -> [kind |-> k, entries |-> {}]

\* std::fs::create_dir(path): one directory level
FsCreateDir(f, s) ==
    LET k == Lookup(f, s) IN
    CASE k = "Absent" -> [kind |-> "ok", fs |-> [f EXCEPT !.dirs = @ \cup {Resolve(s)}]]
      [] k = "Dir" \/ k = "File" -> [kind |-> "AlreadyExists", fs |-> f]
      [] OTHER -> [kind |-> k, fs |-> f]

----------------------------------------------------------------------------
(* impl FileProvider for LocalFileProvider.  Each operation takes the      *)
(* filesystem f and the provider's base b and yields its result (a set of  *)
(* results where the platform or the listing order decides).               *)

\* get_base_path
LocalGetBasePath(b) == b

\* read_file_buffer: the reader hands out the file's bytes
LocalReadFileBuffer(f, b, path) ==
    LET p == Join(<<b, path>>)
        o == FsOpen(f, p)
    IN
    IF o.kind = "ok"
    THEN Ok(o.data, f, <<Call("open", "ok")>>)
    ELSE Err(New(Join(<<<<"File opening error: ">>, IoToString(o.kind), <<"\nPath: ">>, p>>)),
             f, <<Call("open", o.kind)>>)

\* move_file with the copy's outcome not consulted before the removal
LocalMoveFile_RemovesRegardless(f, b, file_path, ending_path, delete) ==
    LET src == Join(<<b, file_path>>) IN
    {   IF delete
        THEN LET r == FsRemoveFile(c.fs, src) IN
             IF c.kind # "ok" \/ r.kind # "ok"
             THEN Err(FromIo(IF c.kind # "ok" THEN c.kind ELSE r.kind), r.fs,
                      <<Call("copy", c.kind), Call("remove", r.kind)>>)
             ELSE Ok(<<>>, r.fs, <<Call("copy", "ok"), Call("remove", "ok")>>)
        ELSE IF c.kind # "ok"
        THEN Err(FromIo(c.kind), c.fs, <<Call("copy", c.kind)>>)
        ELSE Ok(<<>>, c.fs, <<Call("copy", "ok")>>)
      : c \in FsCopy(f, src, ending_path) }

\* move_file: copy base+file_path to ending_path as given, then remove the
\* source when delete is set
LocalMoveFile(f, b, file_path, ending_path, delete) ==
    LET src == Join(<<b, file_path>>) IN
    {   IF c.kind # "ok"
        THEN Err(FromIo(c.kind), c.fs, <<Call("copy", c.kind)>>)
        ELSE IF delete
        THEN LET r == FsRemoveFile(c.fs, src) IN
             IF r.kind # "ok"
             THEN Err(FromIo(r.kind), r.fs, <<Call("copy", "ok"), Call("remove", r.kind)>>)
             ELSE Ok(<<>>, r.fs, <<Call("copy", "ok"), Call("remove", "ok")>>)
        ELSE Ok(<<>>, c.fs, <<Call("copy", "ok")>>)
      : c \in FsCopy(f, src, ending_path) }

\* read_dir: one FileEntry per direct child of base+path, in listing order
LocalReadDir(f, b, path) ==
    LET d == FsReadDir(f, Join(<<b, path>>)) IN
    IF d.kind # "ok"
    THEN {Err(FromIo(d.kind), f, <<Call("read_dir", d.kind)>>)}
    ELSE {Ok(entries, f, <<Call("read_dir", "ok")>>) : entries \in Perms(d.entries)}

\* write_file
LocalWriteFile(f, b, path, contents) ==
    LET w == FsWrite(f, Join(<<b, path>>), contents) IN
    IF w.kind # "ok"
    THEN Err(FromIo(w.kind), w.fs, <<Call("write", w.kind)>>)
    ELSE Ok(<<>>, w.fs, <<Call("write", "ok")>>)

\* delete_file
LocalDeleteFile(f, b, path) ==
    LET r == FsRemoveFile(f, Join(<<b, path>>)) IN
    IF r.kind # "ok"
    THEN Err(FromIo(r.kind), r.fs, <<Call("remove", r.kind)>>)
    ELSE Ok(<<>>, r.fs, <<Call("remove", "ok")>>)

\* list_dir: read_dir is called with base+path (and joins the base again),
\* each entry becomes base + path + "/" + name
LocalListDir(f, b, path) ==
    {   IF r.res # "Ok" THEN r
        ELSE Ok([i \in 1..Len(r.val) |-> Join(<<b, path, <<"/">>, r.val[i].name>>)],
                r.st, r.calls)
      : r \in LocalReadDir(f, b, Join(<<b, path>>)) }

\* create_dir with AlreadyExists returned like any other failure
LocalCreateDir_AlreadyExistsIsError(f, b, path) ==
    LET location == Join(<<b, <<"/">>, path>>)
        m == FsCreateDir(f, location)
    IN
    IF m.kind = "ok" THEN Ok(<<>>, m.fs, <<Call("create_dir", "ok")>>)
    ELSE Err(FromIo(m.kind), m.fs, <<Call("create_dir", m.kind)>>)

\* create_dir: one level at base + "/" + path; AlreadyExists is not an error
LocalCreateDir(f, b, path) ==
    LET location == Join(<<b, <<"/">>, path>>)
        m == FsCreateDir(f, location)
    IN
    IF m.kind = "ok" THEN Ok(<<>>, m.fs, <<Call("create_dir", "ok")>>)
    ELSE IF m.kind = "AlreadyExists" THEN Ok(<<>>, m.fs, <<Call("create_dir", m.kind)>>)
    ELSE Err(FromIo(m.kind), m.fs, <<Call("create_dir", m.kind)>>)

----------------------------------------------------------------------------
(* The object store the object-store backend calls into through its        *)
(* client.  o maps each existing bucket to its objects (key -> bytes).     *)
(* Every request may fail in transport (net = FALSE); the outcome kind is  *)
(* "ok" or the Display text of the SdkError the client returns.            *)

NoSuchBucket(o, bucket) == bucket \notin DOMAIN o

\* get_object().bucket(b).key(k).send()
S3GetObject(o, bucket, key, net) ==
    IF ~net THEN [kind |-> "dispatch failure", data |-> <<>>]
    ELSE IF NoSuchBucket(o, bucket) \/ key \notin DOMAIN o[bucket]
    THEN [kind |-> "service error", data |-> <<>>]
    ELSE [kind |-> "ok", data |-> o[bucket][key]]

\* put_object().bucket(b).key(k).body(c).send()
S3PutObject(o, bucket, key, body, net) ==
    IF ~net THEN [kind |-> "dispatch failure", s3 |-> o]
    ELSE IF NoSuchBucket(o, bucket) THEN [kind |-> "service error", s3 |-> o]
    ELSE [kind |-> "ok", s3 |-> [o EXCEPT ![bucket] = Put(@, key, body)]]

\* copy_object().copy_source(src).bucket(b).key(k).send(): the service reads
\* the copy source as {bucket}/{key}, cut at the first "/"; copying an
\* object onto itself is refused
S3CopyObject(o, copy_source, bucket, key, net) ==
    LET sb == Head(Split(copy_source))
        sk == SubSeq(copy_source, Len(sb) + 2, Len(copy_source))
    IN
    IF ~net THEN [kind |-> "dispatch failure", s3 |-> o]
    ELSE IF NoSuchBucket(o, sb) \/ NoSuchBucket(o, bucket) THEN [kind |-> "service error", s3 |-> o]
    ELSE IF sk \notin DOMAIN o[sb] THEN [kind |-> "service error", s3 |-> o]
    ELSE IF sb = bucket /\ sk = key THEN [kind |-> "service error", s3 |-> o]
    ELSE [kind |-> "ok", s3 |-> [o EXCEPT ![bucket] = Put(@, key, o[sb][sk])]]

\* delete_object().bucket(b).key(k).send(): deleting an absent key succeeds
S3DeleteObject(o, bucket, key, net) ==
    IF ~net THEN [kind |-> "dispatch failure", s3 |-> o]
    ELSE IF NoSuchBucket(o, bucket) THEN [kind |-> "service error", s3 |-> o]
    ELSE [kind |-> "ok", s3 |-> [o EXCEPT ![bucket] = Drop(@, key)]]

\* list_objects_v2().bucket(b).prefix(p).send(): resp.contents is None when
\* no key matches, else Some(objects), each with its key and size
S3ListObjectsV2(o, bucket, prefix, net) ==
    IF ~net THEN [kind |-> "dispatch failure", some |-> FALSE, objects |-> {}]
    ELSE IF NoSuchBucket(o, bucket) THEN [kind |-> "service error", some |-> FALSE, objects |-> {}]
    ELSE LET found == {k \in DOMAIN o[bucket] : IsPrefix(prefix, k)} IN
         [kind |-> "ok", some |-> found # {},
          objects |-> {[key |-> k, size |-> Len(o[bucket][k])] : k \in found}]

----------------------------------------------------------------------------
(* impl FileProvider for AwsS3FileProvider.  Each operation takes the      *)
(* object store o and the provider's bucket.                               *)

\* get_base_path
S3GetBasePath(bucket) == bucket

\* read_file_buffer: get the object, then collect its body (bodyOk = FALSE:
\* the body stream breaks)
S3ReadFileBuffer(o, bucket, path, net, bodyOk) ==
    LET g == S3GetObject(o, bucket, path, net) IN
    IF g.kind # "ok"
    THEN Err(New(<<g.kind>>), o, <<Call("get_object", g.kind)>>)
    ELSE IF ~bodyOk
    THEN Err(New(<<"streaming error">>), o, <<Call("get_object", "ok"), Call("collect", "streaming error")>>)
    ELSE Ok(g.data, o, <<Call("get_object", "ok"), Call("collect", "ok")>>)

\* move_file: the destination bucket is the first "/"-segment of
\* ending_path, the key stays file_name; the source is then deleted from
\* the provider's bucket when delete is set
S3MoveFile(o, bucket, file_name, ending_path, delete, netCopy, netDelete) ==
    LET split_file_location == Split(ending_path) IN
    IF split_file_location = <<>> THEN Panic(o, <<>>)
    ELSE
    LET ending_file_location == Head(split_file_location)
        c == S3CopyObject(o, Join(<<bucket, <<"/">>, file_name>>),
                          ending_file_location, file_name, netCopy)
    IN
    IF c.kind # "ok"
    THEN Err(FromSdk(c.kind), c.s3, <<Call("copy_object", c.kind)>>)
    ELSE IF delete
    THEN LET r == S3DeleteObject(c.s3, bucket, file_name, netDelete) IN
         IF r.kind # "ok"
         THEN Err(FromSdk(r.kind), r.s3, <<Call("copy_object", "ok"), Call("delete_object", r.kind)>>)
         ELSE Ok(<<>>, r.s3, <<Call("copy_object", "ok"), Call("delete_object", "ok")>>)
    ELSE Ok(<<>>, c.s3, <<Call("copy_object", "ok")>>)

\* read_dir: one FileEntry per object under the prefix; resp.contents is
\* unwrapped
S3ReadDir(o, bucket, prefix, net) ==
    LET l == S3ListObjectsV2(o, bucket, prefix, net) IN
    IF l.kind # "ok"
    THEN {Err(FromSdk(l.kind), o, <<Call("list_objects_v2", l.kind)>>)}
    ELSE IF ~l.some
    THEN {Panic(o, <<Call("list_objects_v2", "ok")>>)}
    ELSE {Ok([i \in 1..Len(objs) |-> [name |-> objs[i].key, size |-> objs[i].size]],
             o, <<Call("list_objects_v2", "ok")>>)
            : objs \in Perms(l.objects)}

\* list_dir: the path is ignored, the whole bucket is listed
S3ListDir(o, bucket, path, net) ==
    {   IF r.res # "Ok" THEN r
        ELSE Ok([i \in 1..Len(r.val) |-> Join(<<bucket, <<"/">>, r.val[i].name>>)],
                r.st, r.calls)
      : r \in S3ReadDir(o, bucket, <<>>, net) }

\* write_file: the outcome of the upload is printed, Ok is returned
S3WriteFile(o, bucket, path, contents, net) ==
    LET u == S3PutObject(o, bucket, path, contents, net) IN
    Ok(<<>>, u.s3, <<Call("put_object", u.kind)>>)

\* delete_file, create_dir: unimplemented!()
S3DeleteFile(o, bucket, path) == Panic(o, <<>>)

S3CreateDir(o, bucket, path) == Panic(o, <<>>)

----------------------------------------------------------------------------
(* A caller holding one provider and issuing calls one after another       *)

EmptyMap == [x \in {} |-> <<>>]

NoCall ==
    [op |-> "none", path |-> <<>>, dst |-> <<>>, del |-> FALSE, contents |-> <<>>,
     after |-> "none", res |-> "Ok", msg |-> <<>>, val |-> <<>>, calls |-> <<>>]

Writers == 1..NumWriters

Init ==
    /\ backend \in {"Local", "S3"}
    /\ base \in (IF backend = "Local" THEN LocalBases ELSE {OwnBucket})
    /\ fs = [dirs |-> {<<>>, << <<"d">> >>}, files |-> EmptyMap]
    /\ s3 = [b \in Buckets |-> EmptyMap]
    /\ last = NoCall
    /\ pre = IF backend = "Local" THEN fs ELSE s3
    /\ pc = [w \in Writers |-> "idle"]
    /\ job = [w \in Writers |-> [path |-> <<>>, contents |-> <<>>, res |-> "none"]]

\* the call's record: its operation and arguments, what the call before it
\* returned if that was the same operation on the same path ("none" if it
\* was not), and what this call returned
Record(op, path, dst, del, contents, r) ==
    [op |-> op, path |-> path, dst |-> dst, del |-> del, contents |-> contents,
     after |-> (IF last.op = op /\ last.path = path THEN last.res ELSE "none"),
     res |-> r.res, msg |-> r.msg, val |-> r.val, calls |-> r.calls]

LocalDone(op, path, dst, del, contents, r) ==
    /\ fs' = r.st
    /\ pre' = fs
    /\ last' = Record(op, path, dst, del, contents, r)
    /\ UNCHANGED <<backend, base, s3, pc, job>>

S3Done(op, path, dst, del, contents, r) ==
    /\ s3' = r.st
    /\ pre' = s3
    /\ last' = Record(op, path, dst, del, contents, r)
    /\ UNCHANGED <<backend, base, fs, pc, job>>

CallLocalReadFileBuffer ==
    /\ backend = "Local"
    /\ \E path \in LocalPaths :
        LocalDone("read_file_buffer", path, <<>>, FALSE, <<>>,
                  LocalReadFileBuffer(fs, base, path))

CallLocalMoveFile ==
    /\ backend = "Local"
    /\ \E path \in LocalPaths, dst \in LocalDsts, del \in BOOLEAN :
        \E r \in LocalMoveFile(fs, base, path, dst, del) :
            LocalDone("move_file", path, dst, del, <<>>, r)

CallLocalReadDir ==
    /\ backend = "Local"
    /\ \E path \in LocalPaths :
        \E r \in LocalReadDir(fs, base, path) :
            LocalDone("read_dir", path, <<>>, FALSE, <<>>, r)

CallLocalWriteFile ==
    /\ backend = "Local"
    /\ \E path \in LocalPaths, c \in Contents :
        LocalDone("write_file", path, <<>>, FALSE, c, LocalWriteFile(fs, base, path, c))

CallLocalDeleteFile ==
    /\ backend = "Local"
    /\ \E path \in LocalPaths :
        LocalDone("delete_file", path, <<>>, FALSE, <<>>, LocalDeleteFile(fs, base, path))

CallLocalListDir ==
    /\ backend = "Local"
    /\ \E path \in LocalPaths :
        \E r \in LocalListDir(fs, base, path) :
            LocalDone("list_dir", path, <<>>, FALSE, <<>>, r)

CallLocalCreateDir ==
    /\ backend = "Local"
    /\ \E path \in DirArgs :
        LocalDone("create_dir", path, <<>>, FALSE, <<>>, LocalCreateDir(fs, base, path))

CallS3ReadFileBuffer ==
    /\ backend = "S3"
    /\ \E path \in Keys, net \in BOOLEAN, bodyOk \in BOOLEAN :
        S3Done("read_file_buffer", path, <<>>, FALSE, <<>>,
               S3ReadFileBuffer(s3, base, path, net, bodyOk))

CallS3MoveFile ==
    /\ backend = "S3"
    /\ \E path \in Keys, dst \in S3Dsts, del \in BOOLEAN, netCopy \in BOOLEAN, netDelete \in BOOLEAN :
        /\ (~del => netDelete)
        /\ S3Done("move_file", path, dst, del, <<>>,
               S3MoveFile(s3, base, path, dst, del, netCopy, netDelete))

CallS3ReadDir ==
    /\ backend = "S3"
    /\ \E prefix \in Prefixes, net \in BOOLEAN :
        \E r \in S3ReadDir(s3, base, prefix, net) :
            S3Done("read_dir", prefix, <<>>, FALSE, <<>>, r)

CallS3ListDir ==
    /\ backend = "S3"
    /\ \E path \in Prefixes, net \in BOOLEAN :
        \E r \in S3ListDir(s3, base, path, net) :
            S3Done("list_dir", path, <<>>, FALSE, <<>>, r)

CallS3WriteFile ==
    /\ backend = "S3"
    /\ \E path \in Keys, c \in Contents, net \in BOOLEAN :
        S3Done("write_file", path, <<>>, FALSE, c, S3WriteFile(s3, base, path, c, net))

CallS3DeleteFile ==
    /\ backend = "S3"
    /\ \E path \in Keys :
        S3Done("delete_file", path, <<>>, FALSE, <<>>, S3DeleteFile(s3, base, path))

CallS3CreateDir ==
    /\ backend = "S3"
    /\ \E path \in DirArgs :
        S3Done("create_dir", path, <<>>, FALSE, <<>>, S3CreateDir(s3, base, path))

Next ==
    \/ CallLocalReadFileBuffer
    \/ CallLocalMoveFile
    \/ CallLocalReadDir
    \/ CallLocalWriteFile
    \/ CallLocalDeleteFile
    \/ CallLocalListDir
    \/ CallLocalCreateDir
    \/ CallS3ReadFileBuffer
    \/ CallS3MoveFile
    \/ CallS3ReadDir
    \/ CallS3ListDir
    \/ CallS3WriteFile
    \/ CallS3DeleteFile
    \/ CallS3CreateDir

Spec == Init /\ [][Next]_vars

----------------------------------------------------------------------------
(* Several write_file calls in flight on one shared provider.  The local   *)
(* write_file is std::fs::write: File::create, then write_all, with other  *)
(* calls free to run in between; the object-store write_file is a single   *)
(* put_object request.  No primitive fails here.                           *)

InitConc ==
    /\ backend \in {"Local", "S3"}
    /\ base \in (IF backend = "Local" THEN LocalBases ELSE {OwnBucket})
    /\ fs = [dirs |-> {<<>>, << <<"d">> >>}, files |-> EmptyMap]
    /\ s3 = [b \in Buckets |-> EmptyMap]
    /\ last = NoCall
    /\ pre = IF backend = "Local" THEN fs ELSE s3
    /\ pc = [w \in Writers |-> "start"]
    /\ job \in [Writers -> [path : WriterPaths, contents : WriteContents, res : {"pending"}]]

\* write_file, local: File::create inside std::fs::write
WriteFileCreate(w) ==
    /\ backend = "Local"
    /\ pc[w] = "start"
    /\ LET o == FsCreate(fs, Join(<<base, job[w].path>>)) IN
        /\ fs' = o.fs
        /\ IF o.kind = "ok"
           THEN /\ pc' = [pc EXCEPT ![w] = "created"]
                /\ job' = job
           ELSE /\ pc' = [pc EXCEPT ![w] = "done"]
                /\ job' = [job EXCEPT ![w].res = "Err"]
    /\ UNCHANGED <<backend, base, s3, last, pre>>

\* write_file, local: write_all inside std::fs::write, then Ok(())
WriteFileWriteAll(w) ==
    /\ backend = "Local"
    /\ pc[w] = "created"
    /\ fs' = FsWriteAll(fs, Resolve(Join(<<base, job[w].path>>)), job[w].contents)
    /\ pc' = [pc EXCEPT ![w] = "done"]
    /\ job' = [job EXCEPT ![w].res = "Ok"]
    /\ UNCHANGED <<backend, base, s3, last, pre>>

\* write_file, object store: the put_object request and the return
WriteFilePut(w) ==
    /\ backend = "S3"
    /\ pc[w] = "start"
    /\ LET r == S3WriteFile(s3, base, job[w].path, job[w].contents, TRUE) IN
        /\ s3' = r.st
        /\ job' = [job EXCEPT ![w].res = r.res]
    /\ pc' = [pc EXCEPT ![w] = "done"]
    /\ UNCHANGED <<backend, base, fs, last, pre>>

NextConc ==
    \E w \in Writers :
        \/ WriteFileCreate(w)
        \/ WriteFileWriteAll(w)
        \/ WriteFilePut(w)

SpecConc == InitConc /\ [][NextConc]_vars

----------------------------------------------------------------------------
(* Properties *)

\* the storage of the provider in use
Store == IF backend = "Local" THEN fs ELSE s3

\* what read_file_buffer(path) returns on the provider in use when asked now,
\* with no transport fault
ReadBack(path) ==
    IF backend = "Local" THEN LocalReadFileBuffer(fs, base, path)
    ELSE S3ReadFileBuffer(s3, base, path, TRUE, TRUE)

\* C1: after write_file(path, content) returned Ok, read_file_buffer(path)
\* on the same provider succeeds and yields exactly content (a second write
\* to the same path included: the latest content is read)
C1_RoundTrip ==
    (last.op = "write_file" /\ last.res = "Ok")
        => (ReadBack(last.path).res = "Ok" /\ ReadBack(last.path).val = last.contents)

\* C2: a successful move_file of a source holding content c leaves c
\* readable at the destination, and the source absent (delete = true) or
\* still holding c (delete = false, also when source and destination are
\* the same file; under delete = true the two are taken to differ).  The
\* destination of the local backend is the path as given; that of the
\* object store is the bucket named by the destination's first segment,
\* under the source's key.
C2_MoveSemantics ==
    (last.op = "move_file" /\ last.res = "Ok")
        => IF backend = "Local"
           THEN LET src == Join(<<base, last.path>>)
                    holds(p, c) == Lookup(fs, p) = "File" /\ fs.files[Resolve(p)] = c
                IN
                Lookup(pre, src) = "File"
                    => LET c == pre.files[Resolve(src)] IN
                       IF last.del
                       THEN Resolve(src) # Resolve(last.dst)
                                => (holds(last.dst, c) /\ Lookup(fs, src) # "File")
                       ELSE holds(last.dst, c) /\ holds(src, c)
           ELSE LET to == Head(Split(last.dst)) IN
                last.path \in DOMAIN pre[base]
                    => LET c == pre[base][last.path] IN
                       /\ S3GetObject(s3, to, last.path, TRUE).kind = "ok"
                       /\ S3GetObject(s3, to, last.path, TRUE).data = c
                       /\ IF last.del THEN last.path \notin DOMAIN s3[base]
                          ELSE last.path \in DOMAIN s3[base] /\ s3[base][last.path] = c

\* C3 as stated: on either backend, create_dir called a second time on the
\* same path, after a first call that returned no error, returns Ok
C3_TwiceNeverFails ==
    (last.op = "create_dir" /\ last.after \in {"Ok", "Panic"}) => last.res = "Ok"

\* C3 as amended: on the local backend create_dir of a path whose directory
\* already exists returns Ok and leaves the filesystem as it was, the
\* directory in place; on the object store every create_dir stops fatally
\* and changes nothing
C3_CreateDirIdempotentLocal ==
    last.op = "create_dir"
        => IF backend = "Local"
           THEN LET location == Join(<<base, <<"/">>, last.path>>) IN
                Lookup(pre, location) = "Dir"
                    => (last.res = "Ok" /\ fs = pre /\ Lookup(fs, location) = "Dir")
           ELSE last.res = "Panic" /\ s3 = pre

\* C3 witness: a second create_dir in a row on the local backend, on a
\* directory the first call created
C3_Witness ==
    /\ backend = "Local"
    /\ last.op = "create_dir"
    /\ last.after = "Ok"
    /\ Lookup(pre, Join(<<base, <<"/">>, last.path>>)) = "Dir"
    /\ last.calls[1].kind = "AlreadyExists"
    /\ last.res = "Ok"

\* C4: read_file_buffer of a path/key that does not exist (the request having
\* reached the store) returns Err with a message that includes the path/key,
\* and changes nothing
C4_ErrorWrapping ==
    (/\ last.op = "read_file_buffer"
     /\ IF backend = "Local"
        THEN Lookup(pre, Join(<<base, last.path>>)) \in {"Absent", "NotFound"}
        ELSE last.path \notin DOMAIN pre[base] /\ last.calls[1].kind # "dispatch failure")
        => (last.res = "Err" /\ Includes(last.msg, last.path) /\ Store = pre)

\* C5: a call one of whose primitives failed returns Err, the one exception
\* being create_dir on AlreadyExists
C5_FailurePropagation ==
    (\E i \in 1..Len(last.calls) :
        /\ ~last.calls[i].ok
        /\ ~(last.op = "create_dir" /\ last.calls[i].kind = "AlreadyExists"))
        => last.res = "Err"

\* C6: read_dir of a directory holding only regular files, or of a prefix,
\* whose listing request did not fail, returns exactly one entry per file or
\* object there, with its size; with nothing there, an empty sequence
C6_ListingCompleteness ==
    (/\ last.op = "read_dir"
     /\ \A i \in 1..Len(last.calls) : last.calls[i].ok
     /\ backend = "Local" =>
            \A d \in pre.dirs : d = <<>> \/ Parent(d) # Resolve(Join(<<base, last.path>>)))
        => LET there ==
                 IF backend = "Local"
                 THEN {[name |-> m[Len(m)], size |-> Len(pre.files[m])] :
                        m \in {x \in DOMAIN pre.files :
                                 Parent(x) = Resolve(Join(<<base, last.path>>))}}
                 ELSE {[name |-> k, size |-> Len(pre[base][k])] :
                        k \in {x \in DOMAIN pre[base] : IsPrefix(last.path, x)}}
           IN /\ last.res = "Ok"
              /\ Len(last.val) = Cardinality(there)
              /\ {last.val[i] : i \in 1..Len(last.val)} = there

\* C7: local list_dir(path) fares as read_dir(path) does on the same
\* provider, and returns base + path + "/" + name for each entry of it
C7_ListDirFromReadDir ==
    (last.op = "list_dir" /\ backend = "Local")
        => \A r \in LocalReadDir(pre, base, last.path) :
            /\ last.res = r.res
            /\ r.res = "Ok" =>
                /\ Len(last.val) = Len(r.val)
                /\ {last.val[i] : i \in 1..Len(last.val)}
                     = {Join(<<base, last.path, <<"/">>, r.val[i].name>>) : i \in 1..Len(r.val)}

\* the source of the last move_file, in storage st: its bytes, or "absent"
SourceIn(st) ==
    IF backend = "Local"
    THEN (IF Lookup(st, Join(<<base, last.path>>)) = "File"
          THEN st.files[Resolve(Join(<<base, last.path>>))] ELSE <<-2>>)
    ELSE (IF last.path \in DOMAIN st[base] THEN st[base][last.path] ELSE <<-2>>)

\* C8: in move_file with delete = true a removal of the source is issued
\* only after that call's copy succeeded; when the copy fails the call
\* returns Err, issues no removal, and the source is as it was
C8_NoDeleteAfterFailedCopy ==
    (last.op = "move_file" /\ last.del /\ last.res # "Panic")
        => /\ last.calls[1].prim \in {"copy", "copy_object"}
           /\ \A i \in 1..Len(last.calls) :
                last.calls[i].prim \in {"remove", "delete_object"}
                    => (i = 2 /\ last.calls[1].ok)
           /\ ~last.calls[1].ok
                => (last.res = "Err" /\ Len(last.calls) = 1 /\ SourceIn(Store) = SourceIn(pre))
           /\ SourceIn(Store) # SourceIn(pre) => last.calls[1].ok

\* C8 witness: a move_file with delete = true whose copy failed while the
\* source held bytes
C8_Witness ==
    /\ last.op = "move_file"
    /\ last.del
    /\ ~last.calls[1].ok
    /\ SourceIn(pre) = <<1>>
    /\ last.res = "Err"

\* C9: object-store move_file with a destination that holds no "/" stops
\* fatally before any request is issued
C9_NoSeparatorPanics ==
    (last.op = "move_file" /\ backend = "S3" /\ ~Includes(last.dst, <<"/">>))
        => (last.res = "Panic" /\ last.calls = <<>> /\ s3 = pre)

\* C10: once every concurrent write_file call has returned, each returned Ok
\* and each path written holds exactly the content of one of the calls that
\* wrote to it
C10_LastWriterWins ==
    (\A w \in Writers : pc[w] = "done")
        => \A w \in Writers :
            /\ job[w].res = "Ok"
            /\ ReadBack(job[w].path).res = "Ok"
            /\ ReadBack(job[w].path).val
                 \in {job[v].contents : v \in {x \in Writers : job[x].path = job[w].path}}

====
